---------------------------- MODULE Spec2Model ----------------------------
(***************************************************************************)
(* Model of the review scheduler (src/utils/spaced_repetition.py), the     *)
(* quiz session manager (src/utils/quiz_manager.py) and the two bot        *)
(* handlers that drive the quiz (src/main.py).                             *)
(*                                                                         *)
(* Units.  The clock `now` counts minutes.  An interval, which the code    *)
(* keeps as a float number of days, is kept here in minutes (one day is    *)
(* DAY = 1440 minutes), so the learning steps 1/(24*60) and 10/(24*60)     *)
(* days are the integers 1 and 10.  The ease factor is kept in hundredths  *)
(* (2.5 is 250), the easy bonus and the difficulty level in tenths.  With  *)
(* these units every quantity of the code is an integer and the code's     *)
(* arithmetic is exact; a comparison against the float code on every       *)
(* grade sequence of up to six updates from initialize_item gave the same  *)
(* interval, ease factor, repetitions and stage.  (From the seventh update *)
(* on, float rounding such as 2.8000000000000003 makes the code's          *)
(* ceil(interval * ease_factor) one day longer than the exact product on a *)
(* few sequences, 27 of the 279936 of length seven.)                       *)
(***************************************************************************)
EXTENDS Integers, Sequences, FiniteSets, TLC

VARIABLES
    now,              \* datetime.now(), in minutes
    calc,             \* SpecCalc: arguments / results of calculate_next_review
    user_progress,    \* a caller's progress map, in insertion order
    due,              \* the get_due_items calls made on the present progress map
    question_bank,    \* QuizManager.question_bank, in iteration order
    active_sessions,  \* QuizManager.active_sessions, in insertion order
    response,         \* the latest call of the quiz manager: its arguments,
                      \* the clock reading and what it returned
    sr_updates,       \* the update_progress calls the manager made in that step
    tasks             \* the bot's handler coroutines that wait on a reply

vars == <<now, calc, user_progress, due,
          question_bank, active_sessions, response, sr_updates, tasks>>

quiz_vars == <<question_bank, active_sessions, response, sr_updates, tasks>>

---------------------------------------------------------------------------
(* Bounds of the model *)

\* number of successive calculate_next_review calls in SpecCalc
MaxCalls == 2
\* largest repetitions count SpecCalc starts from
MaxReps == 3
\* update_progress calls on the record of Spec
MaxReviews == 7
\* records of the progress map of SpecDue
MaxItems == 2
\* update_progress calls on the records of SpecDue, all together
MaxDueReviews == 1
\* SpecBot: the number of questions in the bot's bank
MaxBank == 2
\* update_progress calls on the record of SpecGrade
MaxGradeReviews == 3
\* SpecSelect: the sessions created
MaxSelectSessions == 1
\* SpecHistory: the update_progress calls made before it starts, and in it
HistoryStart == 19
MaxHistoryReviews == 3

---------------------------------------------------------------------------
(* SpacedRepetition.__init__: the algorithm's parameters *)

DAY == 1440

ease_factor_default == 250
ease_factor_min == 130
grade_threshold == 3
mastery_threshold == 21
max_daily_reviews == 50
learning_steps == <<1, 10>>
graduation_interval == 1
easy_bonus == 13

Grades == 0..5
Stages == {"new", "learning", "review", "mastered"}

\* the value the code writes as None where a date or a number is expected
None == -1

\* no get_due_items call has been made on the present progress map
NoDue == [called |-> FALSE, max_items |-> None, item_types |-> {}, at |-> None,
          given |-> <<>>, result |-> <<>>,
          repeat |-> FALSE, prev_at |-> None, prev_result |-> <<>>]

\* math.ceil(a / b) for a >= 0, b > 0
\* the quiz manager's enums
Categories == {"quantitative_aptitude", "general_intelligence",
               "general_awareness", "english_comprehension", "mixed"}
Difficulties == {"easy", "medium", "hard"}

\* a QuizQuestion; its texts (question, options, explanation, tags, source)
\* are read by no operation but the formatting of messages
QuizQuestion(id, category, difficulty, correct_answer) ==
    [id |-> id, category |-> category, difficulty |-> difficulty,
     correct_answer |-> correct_answer]

\* _initialize_question_bank: the lists of the four categories, one after
\* the other in the order in which the dict's values() gives them
initialize_question_bank ==
    << QuizQuestion("qa_001", "quantitative_aptitude", "easy", 1),
       QuizQuestion("qa_002", "quantitative_aptitude", "medium", 0),
       QuizQuestion("qa_003", "quantitative_aptitude", "hard", 0),
       QuizQuestion("gi_001", "general_intelligence", "easy", 3),
       QuizQuestion("gi_002", "general_intelligence", "medium", 0),
       QuizQuestion("ga_001", "general_awareness", "easy", 1),
       QuizQuestion("ga_002", "general_awareness", "medium", 2),
       QuizQuestion("ec_001", "english_comprehension", "easy", 1),
       QuizQuestion("ec_002", "english_comprehension", "medium", 1) >>

\* no call of the quiz manager made yet
NoResponse == [op |-> "none"]

\* the task slots of the bot, none of them running a handler
NoTasks == <<>>

\* QuizManager.__init__
QuizManagerInit ==
    /\ question_bank = initialize_question_bank
    /\ active_sessions = <<>>
    /\ response = NoResponse
    /\ sr_updates = <<>>
    /\ tasks = NoTasks

CeilDiv(a, b) == (a + b - 1) \div b

Max(a, b) == IF a >= b THEN a ELSE b
Min(a, b) == IF a <= b THEN a ELSE b

---------------------------------------------------------------------------
(* SpacedRepetition.calculate_next_review *)

\* ease_factor + (0.1 - (5 - grade) * (0.08 + (5 - grade) * 0.02)), floored
sm2_ease(ease_factor, grade) ==
    Max(ease_factor + (10 - (5 - grade) * (8 + (5 - grade) * 2)), ease_factor_min)

\* mutant of review_days: the second repetition is not special-cased
review_days_no_six(interval, ease_factor, new_repetitions) ==
    IF new_repetitions = 1 THEN 1
    ELSE CeilDiv(interval * ease_factor, DAY * 100)

\* the review branch's interval in whole days, before the easy bonus
review_days(interval, ease_factor, new_repetitions) ==
    IF new_repetitions = 1 THEN 1
    ELSE IF new_repetitions = 2 THEN 6
    ELSE CeilDiv(interval * ease_factor, DAY * 100)

\* math.ceil(new_interval * self.easy_bonus) for grade 5
with_easy_bonus(days, grade) ==
    IF grade = 5 THEN CeilDiv(days * easy_bonus, 10) ELSE days

\* mutant of calc_result: only the whole days of the interval are added to
\* the time of the call
calc_result_whole_days(new_interval, new_ease_factor, new_repetitions, new_stage) ==
    [next_interval |-> new_interval,
     ease_factor |-> new_ease_factor,
     repetitions |-> new_repetitions,
     stage |-> new_stage,
     next_review_date |-> now + (new_interval \div DAY) * DAY]

\* the value the function returns; next_review_date is datetime.now() +
\* timedelta(days=new_interval)
calc_result(new_interval, new_ease_factor, new_repetitions, new_stage) ==
    [next_interval |-> new_interval,
     ease_factor |-> new_ease_factor,
     repetitions |-> new_repetitions,
     stage |-> new_stage,
     next_review_date |-> now + new_interval]

\* mutant of failed_recall: an item past the learning phase keeps its stage
\* and its repetitions restart at 1
failed_recall_keeps_stage(ease_factor, item_stage) ==
    calc_result(IF item_stage = "new" THEN learning_steps[1] ELSE 1 * DAY,
                Max(ease_factor - 20, ease_factor_min),
                IF item_stage = "mastered" THEN 1 ELSE 0,
                IF item_stage \in {"new", "learning"} THEN "learning" ELSE item_stage)

\* mutant of failed_recall: the ease factor is lowered without the floor
failed_recall_no_floor(ease_factor, item_stage) ==
    calc_result(IF item_stage = "new" THEN learning_steps[1] ELSE 1 * DAY,
                ease_factor - 20,
                0,
                "learning")

\* mutant of failed_recall: the ease factor is left as it was
failed_recall_keeps_ease(ease_factor, item_stage) ==
    calc_result(IF item_stage = "new" THEN learning_steps[1] ELSE 1 * DAY,
                ease_factor,
                0,
                "learning")

\* mutant of failed_recall: the item starts over as a new item
failed_recall_to_new(ease_factor, item_stage) ==
    calc_result(IF item_stage = "new" THEN learning_steps[1] ELSE 1 * DAY,
                Max(ease_factor - 20, ease_factor_min),
                0,
                "new")

\* grade < grade_threshold: reset to the learning phase
failed_recall(ease_factor, item_stage) ==
    calc_result(IF item_stage = "new" THEN learning_steps[1] ELSE 1 * DAY,
                Max(ease_factor - 20, ease_factor_min),
                0,
                "learning")

\* successful recall of a new item
pass_new(ease_factor, new_repetitions) ==
    calc_result(learning_steps[1], ease_factor, new_repetitions, "learning")

\* successful recall in the learning phase
pass_learning(ease_factor, new_repetitions) ==
    IF new_repetitions >= Len(learning_steps)
    THEN calc_result(graduation_interval * DAY, ease_factor, new_repetitions, "review")
    ELSE calc_result(learning_steps[new_repetitions], ease_factor, new_repetitions,
                     "learning")

\* mutant of pass_review: mastery is decided before the easy bonus
pass_review_mastery_before_bonus(interval, ease_factor, grade, new_repetitions) ==
    LET base == review_days(interval, ease_factor, new_repetitions)
        days == with_easy_bonus(base, grade)
    IN calc_result(days * DAY,
                   sm2_ease(ease_factor, grade),
                   new_repetitions,
                   IF base >= mastery_threshold THEN "mastered" ELSE "review")

\* successful recall in the review phase (stage review or mastered)
pass_review(interval, ease_factor, grade, new_repetitions) ==
    LET days == with_easy_bonus(review_days(interval, ease_factor, new_repetitions),
                                grade)
    IN calc_result(days * DAY,
                   sm2_ease(ease_factor, grade),
                   new_repetitions,
                   IF days >= mastery_threshold THEN "mastered" ELSE "review")

calculate_next_review(interval, ease_factor, grade, repetitions, item_stage) ==
    IF grade < grade_threshold
    THEN failed_recall(ease_factor, item_stage)
    ELSE IF item_stage = "new"
    THEN pass_new(ease_factor, repetitions + 1)
    ELSE IF item_stage = "learning"
    THEN pass_learning(ease_factor, repetitions + 1)
    ELSE pass_review(interval, ease_factor, grade, repetitions + 1)

---------------------------------------------------------------------------
(* SpecCalc: calculate_next_review as a function of arbitrary arguments *)

CalcIntervals == {1, 10, DAY, 6 * DAY, 15 * DAY}
CalcEases == {130, 136, 250, 280}

NoCall == [grade |-> None, stage |-> "none", interval |-> None,
           ease_factor |-> None, repetitions |-> None]

CalcInit ==
    /\ now = 0
    /\ user_progress = <<>>
    /\ due = NoDue
    /\ QuizManagerInit
    /\ \E i \in CalcIntervals, e \in CalcEases, r \in 0..MaxReps, s \in Stages :
          calc = [interval |-> i, ease_factor |-> e, repetitions |-> r, stage |-> s,
                  calls |-> 0, last |-> NoCall, before |-> NoCall]

\* one call on the current values; the caller installs the result.  `last`
\* and `before` keep the arguments of the latest two calls.
CalculateNextReview(grade) ==
    /\ calc.calls < MaxCalls
    /\ LET r == calculate_next_review(calc.interval, calc.ease_factor, grade,
                                      calc.repetitions, calc.stage)
       IN calc' = [interval |-> r.next_interval,
                   ease_factor |-> r.ease_factor,
                   repetitions |-> r.repetitions,
                   stage |-> r.stage,
                   calls |-> calc.calls + 1,
                   last |-> [grade |-> grade, stage |-> calc.stage,
                             interval |-> calc.interval,
                             ease_factor |-> calc.ease_factor,
                             repetitions |-> calc.repetitions],
                   before |-> calc.last]
    /\ UNCHANGED <<now, user_progress, due>>
    /\ UNCHANGED quiz_vars

CalcNext == \E grade \in Grades : CalculateNextReview(grade)

SpecCalc == CalcInit /\ [][CalcNext]_vars

---------------------------------------------------------------------------
(* SpacedRepetition.initialize_item, update_progress *)

ItemTypes == {"vocabulary", "idiom", "grammar", "quiz_question",
              "general_knowledge", "current_affairs"}

\* review_history keeps the last 20 entries
history_limit == 20

\* The progress record.  Its fields content ({}), tags ([]) and source
\* ('system') are set once and never read by the scheduler; they are left out.
initialize_item(item_id, item_type) ==
    [item_id |-> item_id,
     type |-> item_type,
     interval |-> 1 * DAY,
     ease_factor |-> ease_factor_default,
     repetitions |-> 0,
     stage |-> "new",
     next_review_date |-> now,
     created_date |-> now,
     last_review_date |-> None,
     total_reviews |-> 0,
     correct_reviews |-> 0,
     review_history |-> <<>>,
     difficulty_level |-> 10]

RECURSIVE SumGrades(_)
SumGrades(h) == IF h = <<>> THEN 0 ELSE h[1].grade + SumGrades(Tail(h))

\* review_history[-n:]
\* mutant of LastN: the first n entries are kept
LastN_keeps_first(h, n) == IF Len(h) <= n THEN h ELSE SubSeq(h, 1, n)

LastN(h, n) == IF Len(h) <= n THEN h ELSE SubSeq(h, Len(h) - n + 1, Len(h))

\* _update_difficulty_level: the average grade of the last 5 reviews moves
\* difficulty_level (tenths) by -0.1 (floor 0.5) or +0.2 (ceiling 2.0)
update_difficulty_level(review_history, difficulty_level) ==
    IF Len(review_history) < 3 THEN difficulty_level
    ELSE LET recent == LastN(review_history, 5)
             total == SumGrades(recent)
         IN IF 10 * total >= 45 * Len(recent) THEN Max(5, difficulty_level - 1)
            ELSE IF total < 3 * Len(recent) THEN Min(20, difficulty_level + 2)
            ELSE difficulty_level

update_progress(progress, grade) ==
    LET result == calculate_next_review(progress.interval, progress.ease_factor,
                                        grade, progress.repetitions, progress.stage)
        review_entry == [date |-> now,
                         grade |-> grade,
                         response_time |-> None,
                         previous_interval |-> progress.interval,
                         new_interval |-> result.next_interval]
        review_history == LastN(Append(progress.review_history, review_entry),
                                history_limit)
    IN [progress EXCEPT
           !.interval = result.next_interval,
           !.ease_factor = result.ease_factor,
           !.repetitions = result.repetitions,
           !.stage = result.stage,
           !.next_review_date = result.next_review_date,
           !.last_review_date = now,
           !.total_reviews = progress.total_reviews + 1,
           !.correct_reviews = progress.correct_reviews
                                   + (IF grade >= grade_threshold THEN 1 ELSE 0),
           !.review_history = review_history,
           !.difficulty_level = update_difficulty_level(review_history,
                                                        progress.difficulty_level)]

---------------------------------------------------------------------------
(* Spec: one item's record, from initialize_item through every sequence of  *)
(* up to MaxReviews update_progress calls.  The clock stands still here;   *)
(* SpecDue is the specification in which time passes between the calls.    *)

CalcIdle == [interval |-> None, ease_factor |-> None, repetitions |-> None,
             stage |-> "none", calls |-> 0, last |-> NoCall, before |-> NoCall]

ItemIds(progress_map) == {progress_map[k].item_id : k \in 1..Len(progress_map)}

Init ==
    /\ now = 0
    /\ calc = CalcIdle
    /\ user_progress = <<>>
    /\ due = NoDue
    /\ QuizManagerInit

\* The caller creates the record of an item it has none for and keeps it.
\* `due` tells of the calls made on the present map, so a change of the map
\* empties it.
InitializeItem(item_id, item_type) ==
    /\ item_id \notin ItemIds(user_progress)
    /\ user_progress' = Append(user_progress, initialize_item(item_id, item_type))
    /\ due' = NoDue
    /\ UNCHANGED <<now, calc>>
    /\ UNCHANGED quiz_vars

\* update_progress on the k-th record of the map; the dict is updated in place
UpdateProgress(k, grade) ==
    /\ k \in 1..Len(user_progress)
    /\ user_progress' = [user_progress EXCEPT ![k] = update_progress(@, grade)]
    /\ due' = NoDue
    /\ UNCHANGED <<now, calc>>
    /\ UNCHANGED quiz_vars

\* the times at which the caller acts: the start, a minute later, a day
\* later, a day and a minute later
ClockReadings == {0, 1, DAY, DAY + 1}

\* time passes, up to a later clock reading
Tick(later) ==
    /\ later > now
    /\ now' = later
    /\ UNCHANGED <<calc, user_progress, due>>
    /\ UNCHANGED quiz_vars

Review(grade) ==
    /\ Len(user_progress) = 1
    /\ user_progress[1].total_reviews < MaxReviews
    /\ UpdateProgress(1, grade)

Next ==
    \/ InitializeItem(1, "quiz_question")
    \/ \E grade \in Grades : Review(grade)

Spec == Init /\ [][Next]_vars

---------------------------------------------------------------------------
(* SpecHistory: a record that has been reviewed many times.  It starts at   *)
(* the record that initialize_item and HistoryStart update_progress calls   *)
(* of one of three grade patterns have made, and goes on with every grade. *)

\* the record after update_progress with each of the grades in turn
RECURSIVE Reviewed(_, _)
Reviewed(progress, grades) ==
    IF grades = <<>> THEN progress
    ELSE CHOOSE last \in {Reviewed(next, Tail(grades)) :
                             next \in {update_progress(progress, Head(grades))}} : TRUE

\* the grades of the first HistoryStart reviews: all failed, failed and
\* passed by turns, or one failed and three passed, over and over
StartGrades ==
    { [i \in 1..HistoryStart |-> 2],
      [i \in 1..HistoryStart |-> IF i % 2 = 1 THEN 2 ELSE 3],
      [i \in 1..HistoryStart |-> IF i % 4 = 1 THEN 2 ELSE 4] }

HistoryInit ==
    /\ now = 0
    /\ calc = CalcIdle
    /\ due = NoDue
    /\ QuizManagerInit
    /\ \E grades \in StartGrades :
          user_progress = <<Reviewed(initialize_item(1, "quiz_question"), grades)>>

ReviewAgain(grade) ==
    /\ user_progress[1].total_reviews < HistoryStart + MaxHistoryReviews
    /\ UpdateProgress(1, grade)

HistoryNext == \E grade \in Grades : ReviewAgain(grade)

SpecHistory == HistoryInit /\ [][HistoryNext]_vars

\* The grade is a plain int argument: a caller can pass any integer, also
\* one outside the documented range 0-5.
CallerGrades == -1..6

\* update_progress with whatever grade the caller passes
ReviewWithGrade(grade) ==
    /\ Len(user_progress) = 1
    /\ user_progress[1].total_reviews < MaxGradeReviews
    /\ UpdateProgress(1, grade)

GradeNext ==
    \/ InitializeItem(1, "quiz_question")
    \/ \E grade \in CallerGrades : ReviewWithGrade(grade)

SpecGrade == Init /\ [][GradeNext]_vars

---------------------------------------------------------------------------
(* SpacedRepetition.get_due_items *)

\* (current_time - next_review).days
DaysBetween(later, earlier) == (later - earlier) \div DAY

\* _calculate_priority, in hundredths:
\* max(days_overdue + (3.0 - ease_factor), 0)
calculate_priority(progress, current_time) ==
    LET days_overdue == DaysBetween(current_time, progress.next_review_date)
    IN Max(days_overdue * 100 + (300 - progress.ease_factor), 0)

\* _calculate_difficulty_score, as the fraction num/den:
\* clamp(0.1, 2.0, (1 - accuracy) + (3.0 - ease_factor) / 2.0)
calculate_difficulty_score(progress) ==
    IF progress.total_reviews = 0 THEN [num |-> 1, den |-> 1]
    ELSE LET t == progress.total_reviews
             n == 200 * (t - progress.correct_reviews) + (300 - progress.ease_factor) * t
             d == 200 * t
         IN IF n > 2 * d THEN [num |-> 2, den |-> 1]
            ELSE IF 10 * n < d THEN [num |-> 1, den |-> 10]
            ELSE [num |-> n, den |-> d]

\* the ReviewItem built for a due record (its content field is left out);
\* a type that is no ItemType counts as vocabulary
review_item(progress, current_time) ==
    [item_id |-> progress.item_id,
     item_type |-> IF progress.type \in ItemTypes THEN progress.type
                   ELSE "vocabulary",
     stage |-> progress.stage,
     priority |-> calculate_priority(progress, current_time),
     days_overdue |-> Max(0, DaysBetween(current_time, progress.next_review_date)),
     difficulty_score |-> calculate_difficulty_score(progress)]

\* the loop over user_progress.items(): the due records of the requested
\* types, in the dict's order
RECURSIVE collect_due(_, _, _)
collect_due(progress_map, item_types, current_time) ==
    IF progress_map = <<>> THEN <<>>
    ELSE LET progress == Head(progress_map)
             rest == collect_due(Tail(progress_map), item_types, current_time)
         IN IF item_types # {} /\ progress.type \notin item_types THEN rest
            ELSE IF progress.next_review_date <= current_time
            THEN <<review_item(progress, current_time)>> \o rest
            ELSE rest

\* mutant of insert_by_priority: the sort is ascending (reverse=True dropped)
RECURSIVE insert_by_priority_ascending(_, _)
insert_by_priority_ascending(sorted, x) ==
    IF sorted = <<>> THEN <<x>>
    ELSE IF Head(sorted).priority <= x.priority
    THEN <<Head(sorted)>> \o insert_by_priority_ascending(Tail(sorted), x)
    ELSE <<x>> \o sorted

\* list.sort(key=priority, reverse=True): stable, so an item goes behind the
\* items of the same priority that came before it
RECURSIVE insert_by_priority(_, _)
insert_by_priority(sorted, x) ==
    IF sorted = <<>> THEN <<x>>
    ELSE IF Head(sorted).priority >= x.priority
    THEN <<Head(sorted)>> \o insert_by_priority(Tail(sorted), x)
    ELSE <<x>> \o sorted

RECURSIVE sort_by_priority(_)
sort_by_priority(items) ==
    IF items = <<>> THEN <<>>
    ELSE insert_by_priority(sort_by_priority(SubSeq(items, 1, Len(items) - 1)),
                            items[Len(items)])

\* max_items = max_items or self.max_daily_reviews
effective_max_items(max_items) ==
    IF max_items = None \/ max_items = 0 THEN max_daily_reviews ELSE max_items

\* item_types = {} stands for None (and for an empty list): no filter
get_due_items(progress_map, max_items, item_types) ==
    LET due_items == sort_by_priority(collect_due(progress_map, item_types, now))
    IN SubSeq(due_items, 1, Min(effective_max_items(max_items), Len(due_items)))

---------------------------------------------------------------------------
(* SpecDue: a caller's progress map of up to MaxItems records, reviewed and *)
(* queried with get_due_items while time passes.                           *)

\* the type the caller gives item i
TypeOf(item_id) == IF item_id % 2 = 1 THEN "vocabulary" ELSE "quiz_question"

DueGrades == {2, 4}
\* the (max_items, item_types) a call is given; None and {} are the defaults
DueArgs == {<<None, {}>>, <<0, {}>>, <<1, {}>>, <<None, {"vocabulary"}>>}

\* mutant of GetDueItems: the call takes the records it returns out of the
\* map it was given
GetDueItems_consuming(max_items, item_types) ==
    LET result == get_due_items(user_progress, max_items, item_types)
        returned == {result[i].item_id : i \in 1..Len(result)}
        same == /\ due.called
                /\ due.max_items = max_items
                /\ due.item_types = item_types
    IN /\ due' = [called |-> TRUE,
                  max_items |-> max_items,
                  item_types |-> item_types,
                  at |-> now,
                  given |-> user_progress,
                  result |-> result,
                  repeat |-> same,
                  prev_at |-> IF same THEN due.at ELSE None,
                  prev_result |-> IF same THEN due.result ELSE <<>>]
       /\ user_progress' = SelectSeq(user_progress,
                                     LAMBDA p : p.item_id \notin returned)
       /\ UNCHANGED <<now, calc>>
       /\ UNCHANGED quiz_vars

\* One get_due_items call.  It reads the map and the clock and changes
\* neither.  `due` keeps the call's arguments, time and result, the map as it
\* was handed over and, when the call before it on this map had the same
\* arguments, that call's time and result.
GetDueItems(max_items, item_types) ==
    /\ LET same == /\ due.called
                   /\ due.max_items = max_items
                   /\ due.item_types = item_types
       IN due' = [called |-> TRUE,
                  max_items |-> max_items,
                  item_types |-> item_types,
                  at |-> now,
                  given |-> user_progress,
                  result |-> get_due_items(user_progress, max_items, item_types),
                  repeat |-> same,
                  prev_at |-> IF same THEN due.at ELSE None,
                  prev_result |-> IF same THEN due.result ELSE <<>>]
    /\ UNCHANGED <<now, calc, user_progress>>
    /\ UNCHANGED quiz_vars

DueInitialize(item_id) ==
    InitializeItem(item_id, TypeOf(item_id))

RECURSIVE TotalReviews(_)
TotalReviews(progress_map) ==
    IF progress_map = <<>> THEN 0
    ELSE Head(progress_map).total_reviews + TotalReviews(Tail(progress_map))

DueReview(k, grade) ==
    /\ TotalReviews(user_progress) < MaxDueReviews
    /\ UpdateProgress(k, grade)

DueNext ==
    \/ \E item_id \in 1..MaxItems : DueInitialize(item_id)
    \/ \E k \in 1..MaxItems, grade \in DueGrades : DueReview(k, grade)
    \/ \E later \in ClockReadings : Tick(later)
    \/ \E args \in DueArgs : GetDueItems(args[1], args[2])

SpecDue == Init /\ [][DueNext]_vars

---------------------------------------------------------------------------
(* QuizManager: the selection of questions, src/utils/quiz_manager.py      *)

\* q in questions (dataclass equality: all fields equal)
InList(q, questions) == \E i \in 1..Len(questions) : questions[i] = q

\* the questions of the requested difficulty, of every category for MIXED
\* and of the requested category otherwise, in the bank's order
matching_questions(bank, category, difficulty) ==
    SelectSeq(bank, LAMBDA q : /\ category = "mixed" \/ q.category = category
                               /\ q.difficulty = difficulty)

\* mutant of all_questions: the other questions of the bank are added
\* whatever the number of matching questions
all_questions_always_backfilled(bank, category, difficulty, count) ==
    LET filtered == matching_questions(bank, category, difficulty)
    IN filtered \o SelectSeq(bank, LAMBDA q : ~InList(q, filtered))

\* all_questions at the point of the sampling: when the matching questions
\* are fewer than count, every other question of the bank is added
all_questions(bank, category, difficulty, count) ==
    LET filtered == matching_questions(bank, category, difficulty)
    IN IF Len(filtered) < count
       THEN filtered \o SelectSeq(bank, LAMBDA q : ~InList(q, filtered))
       ELSE filtered

\* random.sample(population, k): the lists of k elements at distinct
\* places of the population, in any order
random_sample(population, k) ==
    LET places == {f \in [1..k -> 1..Len(population)] :
                      \A i, j \in 1..k : i # j => f[i] # f[j]}
    IN {[i \in 1..k |-> population[f[i]]] : f \in places}

\* the lists _select_questions may return
select_questions(bank, category, difficulty, count) ==
    LET all == all_questions(bank, category, difficulty, count)
    IN random_sample(all, Min(count, Len(all)))

\* the QuizSession that create_weekly_quiz builds
QuizSession(session_id, user_id, questions, category, difficulty) ==
    [session_id |-> session_id,
     user_id |-> user_id,
     questions |-> questions,
     current_question |-> 0,
     score |-> 0,
     start_time |-> now,
     end_time |-> None,
     user_answers |-> [i \in 1..Len(questions) |-> None],
     time_per_question |-> <<>>,
     category |-> category,
     difficulty |-> difficulty]

\* the ids of the sessions of the active set
SessionIds(sessions) == {sessions[k].session_id : k \in 1..Len(sessions)}

\* the sessions of a user, in the order of active_sessions.values()
SessionsOf(sessions, user_id) ==
    SelectSeq(sessions, LAMBDA s : s.user_id = user_id)

---------------------------------------------------------------------------
(* QuizManager: the result of a quiz *)

\* cat.replace('_', ' ').title()
title(cat) ==
    CASE cat = "quantitative_aptitude" -> "Quantitative Aptitude"
      [] cat = "general_intelligence" -> "General Intelligence"
      [] cat = "general_awareness" -> "General Awareness"
      [] cat = "english_comprehension" -> "English Comprehension"
      [] cat = "mixed" -> "Mixed"

\* the keys of category_performance, in the order of their first question
RECURSIVE categories_seen(_, _)
categories_seen(questions, seen) ==
    IF questions = <<>> THEN seen
    ELSE IF \E i \in 1..Len(seen) : seen[i] = Head(questions).category
    THEN categories_seen(Tail(questions), seen)
    ELSE categories_seen(Tail(questions), Append(seen, Head(questions).category))

\* category_performance[cat] of a session
category_performance(session, cat) ==
    LET of_cat == {i \in 1..Len(session.questions) :
                      session.questions[i].category = cat}
    IN [correct |-> Cardinality({i \in of_cat :
                       session.user_answers[i] = session.questions[i].correct_answer}),
        total |-> Cardinality(of_cat)]

\* mutant of is_weak: everything that is not strong is weak
is_weak_below_strong(perf) == perf.correct * 100 < 80 * perf.total

\* (correct / total) * 100 < 60 and >= 80, on the exact quotient
is_weak(perf) == perf.correct * 100 < 60 * perf.total
is_strong(perf) == perf.correct * 100 >= 80 * perf.total

\* the titles of the categories of a list
titles(cats) == [i \in 1..Len(cats) |-> title(cats[i])]

\* _generate_recommendations; the fixed texts are named by their subject
generate_recommendations(score, total, weak_areas) ==
    LET by_score ==
            IF score * 100 < 40 * total
            THEN <<"fundamental concepts", "practice daily">>
            ELSE IF score * 100 < 60 * total
            THEN <<"focus on weak areas", "time management">>
            ELSE IF score * 100 < 80 * total
            THEN <<"fine-tune weak areas", "speed and accuracy">>
            ELSE <<"outstanding performance", "harder difficulty levels">>
    IN IF weak_areas # <<>>
       THEN Append(by_score, <<"focus areas", weak_areas>>)
       ELSE by_score

\* _generate_result of a session whose end_time is set.  The percentage is
\* kept as the exact quotient num / den.
generate_result(session) ==
    LET cats == categories_seen(session.questions, <<>>)
        weak_areas == titles(SelectSeq(cats,
                          LAMBDA c : is_weak(category_performance(session, c))))
        strong_areas == titles(SelectSeq(cats,
                          LAMBDA c : /\ ~is_weak(category_performance(session, c))
                                     /\ is_strong(category_performance(session, c))))
    IN [session_id |-> session.session_id,
        user_id |-> session.user_id,
        total_questions |-> Len(session.questions),
        correct_answers |-> session.score,
        score_percentage |-> [num |-> session.score * 100,
                              den |-> Len(session.questions)],
        time_taken |-> (session.end_time - session.start_time) * 60,
        category |-> session.category,
        difficulty |-> session.difficulty,
        weak_areas |-> weak_areas,
        strong_areas |-> strong_areas,
        recommendations |-> generate_recommendations(session.score,
                                Len(session.questions), weak_areas)]

---------------------------------------------------------------------------
(* QuizManager: create_weekly_quiz and submit_answer *)

\* the first eight characters of the uuid4 values, in the order in which
\* the generator gives them; a session gets the first that no session of
\* the active set has
Uuids == <<"0a1b2c3d", "4e5f6a7b">>

UsedUuids(sessions) == {sessions[k].session_id[3] : k \in 1..Len(sessions)}

FreshUuids(sessions) == SelectSeq(Uuids, LAMBDA u : u \notin UsedUuids(sessions))

\* the session id: quiz_{user_id}_{time}_{uuid}
SessionId(user_id, uuid) == <<user_id, now, uuid>>

\* create_weekly_quiz: there is no test of the sessions the user already
\* has; the new session goes into active_sessions under its fresh id
create_weekly_quiz(user_id, category, difficulty, question_count) ==
    /\ FreshUuids(active_sessions) # <<>>
    /\ \E questions \in select_questions(question_bank, category, difficulty,
                                          question_count) :
        LET uuid == Head(FreshUuids(active_sessions))
            session == QuizSession(SessionId(user_id, uuid), user_id, questions,
                                   category, difficulty)
        IN /\ active_sessions' = Append(active_sessions, session)
           /\ response' = [op |-> "create_weekly_quiz", at |-> now,
                           question_count |-> question_count,
                           session |-> session]
           /\ sr_updates' = <<>>

RECURSIVE Sum(_)
Sum(times) == IF times = <<>> THEN 0 ELSE Head(times) + Sum(Tail(times))

\* mutant of is_correct: the answer is read as a 1-based option number
is_correct_one_based(answer, question) == answer = question.correct_answer + 1

\* answer == correct_answer
is_correct(answer, question) == answer = question.correct_answer

\* mutant of record_answer: the index is not moved on
record_answer_keeps_index(session, answer) ==
    LET idx == session.current_question + 1
        question_time == (now - session.start_time) * 60
                             - Sum(session.time_per_question)
    IN [session EXCEPT
           !.user_answers[idx] = answer,
           !.time_per_question = Append(@, question_time),
           !.score = IF is_correct(answer, session.questions[idx])
                     THEN @ + 1 ELSE @]

\* mutant of record_answer: the time recorded is the time since the start
\* of the session
record_answer_time_since_start(session, answer) ==
    LET idx == session.current_question + 1
        question_time == (now - session.start_time) * 60
        recorded == [session EXCEPT
                        !.user_answers[idx] = answer,
                        !.time_per_question = Append(@, question_time),
                        !.score = IF is_correct(answer, session.questions[idx])
                                  THEN @ + 1 ELSE @,
                        !.current_question = @ + 1]
    IN IF recorded.current_question >= Len(recorded.questions)
       THEN [recorded EXCEPT !.end_time = now]
       ELSE recorded

\* the session after submit_answer has recorded an answer: the answer, the
\* seconds since the previous answer (the start for the first), the score
\* and the index; end_time when that was the last question
record_answer(session, answer) ==
    LET idx == session.current_question + 1
        question_time == (now - session.start_time) * 60
                             - Sum(session.time_per_question)
        recorded == [session EXCEPT
                        !.user_answers[idx] = answer,
                        !.time_per_question = Append(@, question_time),
                        !.score = IF is_correct(answer, session.questions[idx])
                                  THEN @ + 1 ELSE @,
                        !.current_question = @ + 1]
    IN IF recorded.current_question >= Len(recorded.questions)
       THEN [recorded EXCEPT !.end_time = now]
       ELSE recorded

\* mutant of update_spaced_repetition: only the questions answered
\* correctly are passed on to the scheduler
update_spaced_repetition_correct_only(session) ==
    LET RECURSIVE from(_)
        from(i) ==
            IF i > Len(session.questions) THEN <<>>
            ELSE LET question == session.questions[i]
                 IN IF session.user_answers[i] = question.correct_answer
                    THEN <<[item_id |-> question.id,
                            grade |-> 5,
                            progress |-> update_progress(
                                initialize_item(question.id, question.category), 5)]>>
                         \o from(i + 1)
                    ELSE from(i + 1)
    IN from(1)

\* _update_spaced_repetition: for every question of the session a record
\* fresh from initialize_item gets one update_progress, grade 5 for a
\* correct answer and 2 otherwise; the record is kept nowhere
update_spaced_repetition(session) ==
    [i \in 1..Len(session.questions) |->
        LET question == session.questions[i]
            grade == IF session.user_answers[i] = question.correct_answer
                     THEN 5 ELSE 2
        IN [item_id |-> question.id,
            grade |-> grade,
            progress |-> update_progress(
                            initialize_item(question.id, question.category), grade)]]

\* mutant of submit_answer: the completion is signalled one answer early
submit_answer_completes_early(sessions, session_id, answer) ==
    IF session_id \notin SessionIds(sessions)
    THEN [sessions |-> sessions,
          result |-> [error |-> "Session not found"],
          sr_updates |-> <<>>]
    ELSE
      LET k == CHOOSE k \in 1..Len(sessions) : sessions[k].session_id = session_id
          session == sessions[k]
          current_q_idx == session.current_question
      IN IF current_q_idx >= Len(session.questions)
         THEN [sessions |-> sessions,
               result |-> [error |-> "Quiz already completed"],
               sr_updates |-> <<>>]
         ELSE
           LET question == session.questions[current_q_idx + 1]
               after == record_answer(session, answer)
               accepted == [correct |-> is_correct(answer, question),
                            correct_answer |-> question.correct_answer,
                            current_score |-> after.score,
                            questions_completed |-> after.current_question,
                            total_questions |-> Len(after.questions)]
               completed == after.current_question + 1 >= Len(after.questions)
           IN [sessions |-> [sessions EXCEPT ![k] = after],
               result |-> IF completed
                          THEN [correct |-> accepted.correct,
                                correct_answer |-> accepted.correct_answer,
                                current_score |-> accepted.current_score,
                                questions_completed |-> accepted.questions_completed,
                                total_questions |-> accepted.total_questions,
                                quiz_completed |-> TRUE,
                                final_result |-> generate_result(after)]
                          ELSE accepted,
               sr_updates |-> IF completed
                              THEN update_spaced_repetition(after)
                              ELSE <<>>]

\* mutant of submit_answer: a completed session is dropped from the active
\* set when another answer arrives for it
submit_answer_drops_completed(sessions, session_id, answer) ==
    IF session_id \notin SessionIds(sessions)
    THEN [sessions |-> sessions,
          result |-> [error |-> "Session not found"],
          sr_updates |-> <<>>]
    ELSE
      LET k == CHOOSE k \in 1..Len(sessions) : sessions[k].session_id = session_id
          session == sessions[k]
          current_q_idx == session.current_question
      IN IF current_q_idx >= Len(session.questions)
         THEN [sessions |-> SubSeq(sessions, 1, k - 1)
                                 \o SubSeq(sessions, k + 1, Len(sessions)),
               result |-> [error |-> "Quiz already completed"],
               sr_updates |-> <<>>]
         ELSE
           LET question == session.questions[current_q_idx + 1]
               after == record_answer(session, answer)
               accepted == [correct |-> is_correct(answer, question),
                            correct_answer |-> question.correct_answer,
                            current_score |-> after.score,
                            questions_completed |-> after.current_question,
                            total_questions |-> Len(after.questions)]
               completed == after.current_question >= Len(after.questions)
           IN [sessions |-> [sessions EXCEPT ![k] = after],
               result |-> IF completed
                          THEN [correct |-> accepted.correct,
                                correct_answer |-> accepted.correct_answer,
                                current_score |-> accepted.current_score,
                                questions_completed |-> accepted.questions_completed,
                                total_questions |-> accepted.total_questions,
                                quiz_completed |-> TRUE,
                                final_result |-> generate_result(after)]
                          ELSE accepted,
               sr_updates |-> IF completed
                              THEN update_spaced_repetition(after)
                              ELSE <<>>]

\* submit_answer: the active set, the dict returned and the update_progress
\* calls made.  The dict has the key error alone, or the keys of an accepted
\* answer, to which the last answer of the quiz adds quiz_completed and
\* final_result.
submit_answer(sessions, session_id, answer) ==
    IF session_id \notin SessionIds(sessions)
    THEN [sessions |-> sessions,
          result |-> [error |-> "Session not found"],
          sr_updates |-> <<>>]
    ELSE
      LET k == CHOOSE k \in 1..Len(sessions) : sessions[k].session_id = session_id
          session == sessions[k]
          current_q_idx == session.current_question
      IN IF current_q_idx >= Len(session.questions)
         THEN [sessions |-> sessions,
               result |-> [error |-> "Quiz already completed"],
               sr_updates |-> <<>>]
         ELSE
           LET question == session.questions[current_q_idx + 1]
               after == record_answer(session, answer)
               accepted == [correct |-> is_correct(answer, question),
                            correct_answer |-> question.correct_answer,
                            current_score |-> after.score,
                            questions_completed |-> after.current_question,
                            total_questions |-> Len(after.questions)]
               completed == after.current_question >= Len(after.questions)
           IN [sessions |-> [sessions EXCEPT ![k] = after],
               result |-> IF completed
                          THEN [correct |-> accepted.correct,
                                correct_answer |-> accepted.correct_answer,
                                current_score |-> accepted.current_score,
                                questions_completed |-> accepted.questions_completed,
                                total_questions |-> accepted.total_questions,
                                quiz_completed |-> TRUE,
                                final_result |-> generate_result(after)]
                          ELSE accepted,
               sr_updates |-> IF completed
                              THEN update_spaced_repetition(after)
                              ELSE <<>>]

---------------------------------------------------------------------------
(* SpecQuiz: callers of the quiz manager.  Users ask for quizzes and       *)
(* answer the questions of the sessions, in any order.                     *)

\* the user ids of the callers
Callers == {1}

\* a session id that is not in the active set
UnknownSession == <<0, 0, "unknown">>

\* every session id a caller may hold, and one that was never given out
KnownSessionIds ==
    {<<user_id, created, Uuids[i]>> :
        user_id \in Callers, created \in ClockReadings, i \in 1..Len(Uuids)}
        \cup {UnknownSession}

\* the requests made: category, difficulty, question_count.  Four medium
\* questions match the first; none matches the second, so the whole bank
\* is the population; the third asks for no question; the one question
\* asked for by the fourth is the only one that matches.
QuizRequests == { <<"mixed", "medium", 2>>,
                  <<"general_intelligence", "hard", 1>>,
                  <<"mixed", "medium", 0>>,
                  <<"general_awareness", "medium", 1>> }

\* the options a caller answers with: the correct one and the one after it
AnswersTo(question) == {question.correct_answer, (question.correct_answer + 1) % 4}

\* the answers a caller gives to a session: to its current question, or
\* option A when it has none
AnswersFor(session_id) ==
    IF session_id \notin SessionIds(active_sessions) THEN {0}
    ELSE LET session == CHOOSE s \in {active_sessions[k] : k \in 1..Len(active_sessions)} :
                            s.session_id = session_id
         IN IF session.current_question >= Len(session.questions) THEN {0}
            ELSE AnswersTo(session.questions[session.current_question + 1])

CreateWeeklyQuiz(user_id, category, difficulty, question_count) ==
    /\ create_weekly_quiz(user_id, category, difficulty, question_count)
    /\ UNCHANGED <<now, calc, user_progress, due, question_bank, tasks>>

SubmitAnswer(session_id, answer) ==
    /\ session_id \in SessionIds(active_sessions) \cup {UnknownSession}
    /\ answer \in AnswersFor(session_id)
    /\ LET r == submit_answer(active_sessions, session_id, answer)
       IN /\ active_sessions' = r.sessions
          /\ response' = [op |-> "submit_answer", at |-> now,
                          session_id |-> session_id,
                          answer |-> answer, result |-> r.result]
          /\ sr_updates' = r.sr_updates
    /\ UNCHANGED <<now, calc, user_progress, due, question_bank, tasks>>

QuizNext ==
    \/ \E user_id \in Callers, request \in QuizRequests :
          CreateWeeklyQuiz(user_id, request[1], request[2], request[3])
    \/ \E session_id \in KnownSessionIds, answer \in 0..3 :
          SubmitAnswer(session_id, answer)

SpecQuiz == Init /\ [][QuizNext]_vars

---------------------------------------------------------------------------
(* SpecSelect: quiz creation alone, over requests for which the bank has   *)
(* too few, just enough and more than enough matching questions.           *)

\* category, difficulty, question_count.  One medium general-awareness
\* question and one hard question are in the bank, so the first two ask
\* for one more than matches; four easy questions match the third.
SelectRequests == { <<"general_awareness", "medium", 2>>,
                    <<"mixed", "hard", 2>>,
                    <<"mixed", "easy", 3>> }

CreateQuiz(user_id, category, difficulty, question_count) ==
    /\ Len(active_sessions) < MaxSelectSessions
    /\ CreateWeeklyQuiz(user_id, category, difficulty, question_count)

SelectNext ==
    \E user_id \in Callers, request \in SelectRequests :
        CreateQuiz(user_id, request[1], request[2], request[3])

SpecSelect == Init /\ [][SelectNext]_vars

---------------------------------------------------------------------------
(* SpecTime: one user takes one quiz of two questions while time passes    *)
(* between the calls.                                                      *)

\* the user asks for a quiz once
StartQuiz(user_id, category, difficulty, question_count) ==
    /\ active_sessions = <<>>
    /\ CreateWeeklyQuiz(user_id, category, difficulty, question_count)

\* time passes between the calls of the manager
TimePasses(later) ==
    /\ later > now
    /\ now' = later
    /\ UNCHANGED <<calc, user_progress, due>>
    /\ UNCHANGED quiz_vars

TimeNext ==
    \/ \E user_id \in Callers : StartQuiz(user_id, "mixed", "medium", 2)
    \/ \E session_id \in KnownSessionIds \ {UnknownSession}, answer \in 0..3 :
          SubmitAnswer(session_id, answer)
    \/ \E later \in ClockReadings : TimePasses(later)

SpecTime == Init /\ [][TimeNext]_vars

---------------------------------------------------------------------------
(* SpecResult: one user takes one quiz of three questions.  One medium     *)
(* question of quantitative aptitude is in the bank, so the three          *)
(* questions are any three of the bank: of three, two or one category.     *)

ResultNext ==
    \/ \E user_id \in Callers :
          StartQuiz(user_id, "quantitative_aptitude", "medium", 3)
    \/ \E session_id \in KnownSessionIds \ {UnknownSession}, answer \in 0..3 :
          SubmitAnswer(session_id, answer)

SpecResult == Init /\ [][ResultNext]_vars

---------------------------------------------------------------------------
(* The bot's quiz handlers, src/main.py.  A handler is a coroutine: it     *)
(* runs without interruption up to an await of reply_text, which sends a   *)
(* message and either returns or raises.  `tasks` holds the handlers that  *)
(* wait on a reply, each with the place it waits at and the locals it      *)
(* still needs.                                                            *)

\* the Application is built without concurrent_updates: it handles one
\* update to its end before it takes the next
concurrent_updates == 0

\* the number of handlers that may be in flight
HandlersInFlight == IF concurrent_updates > 1 THEN concurrent_updates ELSE 1

\* ' '.join(context.args).lower() contains the word
InArgs(word, args) == \E i \in 1..Len(args) : args[i] = word

\* int(arg) of the arguments for which arg.isdigit() holds
int_of == ("3" :> 3) @@ ("7" :> 7) @@ ("25" :> 25)

\* the category, difficulty and question count that quiz_command reads
\* from the arguments of /quiz
parse_category(args) ==
    IF InArgs("quantitative", args) \/ InArgs("math", args)
    THEN "quantitative_aptitude"
    ELSE IF InArgs("reasoning", args) \/ InArgs("intelligence", args)
    THEN "general_intelligence"
    ELSE IF InArgs("gk", args) \/ InArgs("awareness", args)
    THEN "general_awareness"
    ELSE IF InArgs("english", args) THEN "english_comprehension"
    ELSE "mixed"

parse_difficulty(args) ==
    IF InArgs("easy", args) THEN "easy"
    ELSE IF InArgs("hard", args) THEN "hard"
    ELSE "medium"

RECURSIVE parse_question_count(_, _)
parse_question_count(args, question_count) ==
    IF args = <<>> THEN question_count
    ELSE IF Head(args) \in DOMAIN int_of
    THEN parse_question_count(Tail(args), Max(5, Min(20, int_of[Head(args)])))
    ELSE parse_question_count(Tail(args), question_count)

\* a handler that waits on a reply
Task(handler, user_id, pc, session_id, quiz_completed) ==
    [handler |-> handler, user_id |-> user_id, pc |-> pc,
     session_id |-> session_id, quiz_completed |-> quiz_completed]

\* mutant of QuizCommand: the test for a session of the user is missing
QuizCommand_unchecked(user_id, args) ==
    /\ Len(tasks) < HandlersInFlight
    /\ create_weekly_quiz(user_id, parse_category(args),
                          parse_difficulty(args),
                          parse_question_count(args, 10))
    /\ tasks' = Append(tasks, Task("quiz_command", user_id, "welcome",
                                   response'.session.session_id, FALSE))
    /\ UNCHANGED <<now, calc, user_progress, due, question_bank>>

\* quiz_command up to its first await.  A user who has a session, completed
\* or not, gets its current question again; otherwise the session is
\* created and the welcome message is sent.  There is no await between the
\* test and the creation.
QuizCommand(user_id, args) ==
    /\ Len(tasks) < HandlersInFlight
    /\ IF SessionsOf(active_sessions, user_id) # <<>>
       THEN /\ tasks' = Append(tasks,
                   Task("quiz_command", user_id, "resend_question",
                        SessionsOf(active_sessions, user_id)[1].session_id, FALSE))
            /\ response' = NoResponse
            /\ sr_updates' = <<>>
            /\ UNCHANGED active_sessions
       ELSE /\ create_weekly_quiz(user_id, parse_category(args),
                                  parse_difficulty(args),
                                  parse_question_count(args, 10))
            /\ tasks' = Append(tasks,
                   Task("quiz_command", user_id, "welcome",
                        response'.session.session_id, FALSE))
    /\ UNCHANGED <<now, calc, user_progress, due, question_bank>>

\* message_text.strip().upper() of the texts the users send
normalise == ("a" :> "A") @@ ("A" :> "A") @@ (" b" :> "B") @@ ("hello" :> "HELLO")

\* ord(message_text) - ord('A')
answer_index == ("A" :> 0) @@ ("B" :> 1) @@ ("C" :> 2) @@ ("D" :> 3)

\* handle_quiz_answer up to its first await.  Without a session of the
\* user, or with a text that is no option letter, the message is no quiz
\* answer and nothing happens; otherwise the answer goes to the first
\* session of the user.
HandleQuizAnswer(user_id, text) ==
    /\ Len(tasks) < HandlersInFlight
    /\ LET message_text == normalise[text]
           sessions == SessionsOf(active_sessions, user_id)
       IN IF sessions = <<>> \/ message_text \notin {"A", "B", "C", "D"}
          THEN /\ response' = NoResponse
               /\ sr_updates' = <<>>
               /\ UNCHANGED <<active_sessions, tasks>>
          ELSE
            LET session_id == sessions[1].session_id
                answer == answer_index[message_text]
                r == submit_answer(active_sessions, session_id, answer)
            IN /\ active_sessions' = r.sessions
               /\ response' = [op |-> "submit_answer", at |-> now,
                          session_id |-> session_id,
                               answer |-> answer, result |-> r.result]
               /\ sr_updates' = r.sr_updates
               /\ tasks' = Append(tasks,
                      Task("handle_quiz_answer", user_id,
                           IF "error" \in DOMAIN r.result
                           THEN "answer_error" ELSE "feedback",
                           session_id,
                           "quiz_completed" \in DOMAIN r.result))
    /\ UNCHANGED <<now, calc, user_progress, due, question_bank>>

\* the place a handler goes to when the reply it waits on has returned;
\* "done" is the end of the handler
after_reply(task) ==
    CASE task.pc = "resend_question" -> "done"
      [] task.pc = "welcome" -> "first_question"
      [] task.pc = "first_question" -> "done"
      [] task.pc = "answer_error" -> "done"
      [] task.pc = "feedback" ->
            IF task.quiz_completed THEN "result" ELSE "next_question"
      [] task.pc = "result" -> "done"
      [] task.pc = "next_question" -> "done"
      [] task.pc = "error_reply" -> "done"

\* the place a handler goes to when the reply has raised: the except branch
\* of the try block, which sends an apology; the first reply of
\* quiz_command to a user with a session and the apology itself are
\* outside every try block, so the exception ends the handler
after_raise(task) ==
    IF task.pc \in {"resend_question", "error_reply"} THEN "done" ELSE "error_reply"

RemoveAt(seq, i) == SubSeq(seq, 1, i - 1) \o SubSeq(seq, i + 1, Len(seq))

\* a handler's tasks after it has moved to a place
moved(i, pc) ==
    IF pc = "done" THEN RemoveAt(tasks, i) ELSE [tasks EXCEPT ![i].pc = pc]

\* the reply a handler waits on returns.  After the result message of a
\* completed quiz the handler deletes the session, if it is still there.
ReplySent(i) ==
    /\ i \in 1..Len(tasks)
    /\ tasks' = moved(i, after_reply(tasks[i]))
    /\ active_sessions' =
          IF tasks[i].pc = "result"
          THEN SelectSeq(active_sessions,
                         LAMBDA s : s.session_id # tasks[i].session_id)
          ELSE active_sessions
    /\ response' = NoResponse
    /\ sr_updates' = <<>>
    /\ UNCHANGED <<now, calc, user_progress, due, question_bank>>

\* the reply a handler waits on raises
ReplyRaised(i) ==
    /\ i \in 1..Len(tasks)
    /\ tasks' = moved(i, after_raise(tasks[i]))
    /\ response' = NoResponse
    /\ sr_updates' = <<>>
    /\ UNCHANGED <<now, calc, user_progress, due, question_bank, active_sessions>>

---------------------------------------------------------------------------
(* SpecBot: users send /quiz commands and text messages to the bot.  A     *)
(* handler session asks for five questions at least, which with the nine   *)
(* questions of the source's bank gives 15120 sessions and more to start   *)
(* from; the bot of this specification is built with the first MaxBank     *)
(* questions of the bank.                                                  *)

Users == {1, 2}

\* the arguments of /quiz
QuizArgs == { <<>>, <<"math", "hard", "3">> }

\* the text messages
Texts == {"a", " b", "hello"}

BotInit ==
    /\ now = 0
    /\ calc = CalcIdle
    /\ user_progress = <<>>
    /\ due = NoDue
    /\ question_bank = SubSeq(initialize_question_bank, 1, MaxBank)
    /\ active_sessions = <<>>
    /\ response = NoResponse
    /\ sr_updates = <<>>
    /\ tasks = NoTasks

BotNext ==
    \/ \E user_id \in Users, args \in QuizArgs : QuizCommand(user_id, args)
    \/ \E user_id \in Users, text \in Texts : HandleQuizAnswer(user_id, text)
    \/ \E i \in 1..HandlersInFlight : ReplySent(i)
    \/ \E i \in 1..HandlersInFlight : ReplyRaised(i)

SpecBot == BotInit /\ [][BotNext]_vars

---------------------------------------------------------------------------
(* Claims about calculate_next_review, checked under SpecCalc *)

\* C2: whatever the prior stage and repetitions count, a call with a grade
\* below 3 returns stage = learning and repetitions = 0.
C2_FailResetsToLearning ==
    (calc.calls > 0 /\ calc.last.grade < 3)
        => (calc.stage = "learning" /\ calc.repetitions = 0)

\* a failing call was made on a mastered item with three repetitions
C2_Witness ==
    /\ calc.calls > 0
    /\ calc.last.grade = 2
    /\ calc.last.stage = "mastered"
    /\ calc.last.repetitions = 3
    /\ calc.stage = "learning"

\* C8: for an item in stage review, a pass with grade 3 or 4 that brings
\* repetitions to 1 gives an interval of exactly 1 day, and one that brings
\* repetitions to 2 gives exactly 6 days, whatever the ease factor and the
\* previous interval.
C8_ReviewFirstIntervals ==
    (calc.calls > 0 /\ calc.last.stage = "review" /\ calc.last.grade \in {3, 4})
        => /\ calc.repetitions = 1 => calc.interval = 1 * DAY
           /\ calc.repetitions = 2 => calc.interval = 6 * DAY

\* two successive passes from stage review, repetitions 0 -> 1 -> 2, with an
\* ease factor and a starting interval for which ceil(interval x ease) is
\* neither 1 nor 6 days
C8_Witness ==
    /\ calc.calls = 2
    /\ calc.before.stage = "review" /\ calc.before.grade \in {3, 4}
    /\ calc.before.repetitions = 0 /\ calc.before.interval = 15 * DAY
    /\ calc.before.ease_factor = 280
    /\ calc.last.stage = "review" /\ calc.last.grade \in {3, 4}
    /\ calc.last.repetitions = 1 /\ calc.last.interval = 1 * DAY
    /\ calc.repetitions = 2 /\ calc.interval = 6 * DAY

\* the days of the review branch before the easy bonus: 1 and 6 for the
\* first two repetitions, then ceil(interval x ease factor)
BaseDays(last) ==
    IF last.repetitions + 1 = 1 THEN 1
    ELSE IF last.repetitions + 1 = 2 THEN 6
    ELSE (last.interval * last.ease_factor + DAY * 100 - 1) \div (DAY * 100)

\* C27: after a passing grade on an item in stage review or mastered, the
\* new stage is mastered exactly when the resulting interval (after the
\* grade-5 easy bonus of x1.3, rounded up) is at least 21 days, and review
\* otherwise.
C27_MasteredAtThreshold ==
    (/\ calc.calls > 0
     /\ calc.last.stage \in {"review", "mastered"}
     /\ calc.last.grade >= 3)
        => /\ calc.stage = (IF calc.interval >= 21 * DAY THEN "mastered" ELSE "review")
           /\ calc.interval =
                 DAY * (IF calc.last.grade = 5
                        THEN (BaseDays(calc.last) * 13 + 9) \div 10
                        ELSE BaseDays(calc.last))

\* a review item of 15 days passed with grade 5: ceil(15 x 1.3) = 20 days
\* before the bonus, 26 days and mastered after it
C27_Witness ==
    /\ calc.calls > 0
    /\ calc.last.stage = "review"
    /\ calc.last.grade = 5
    /\ BaseDays(calc.last) = 20
    /\ calc.interval = 26 * DAY
    /\ calc.stage = "mastered"

---------------------------------------------------------------------------
(* Claims about a record's life, checked under Spec *)

\* the grades of a review history
RECURSIVE AllGradesIn(_, _)
AllGradesIn(h, S) ==
    h = <<>> \/ (h[1].grade \in S /\ AllGradesIn(Tail(h), S))

\* C1: from initialize_item (ease factor 2.5), after any number of
\* update_progress calls with any grades 0..5, the ease factor is at least 1.3.
C1_EaseFactorFloor ==
    \A k \in 1..Len(user_progress) : user_progress[k].ease_factor >= 130

\* seven failed reviews in a row: 2.5 - 7 x 0.2 = 1.1 is held at the floor
C1_Witness ==
    /\ Len(user_progress) = 1
    /\ user_progress[1].total_reviews = 7
    /\ AllGradesIn(user_progress[1].review_history, 0..2)
    /\ user_progress[1].ease_factor = 130

\* interval, ease factor, repetitions and stage after the first j updates of
\* the review history h of a record made by initialize_item
RECURSIVE StateAfter(_, _)
StateAfter(h, j) ==
    IF j = 0
    THEN [next_interval |-> 1 * DAY, ease_factor |-> ease_factor_default,
          repetitions |-> 0, stage |-> "new"]
    ELSE LET s == StateAfter(h, j - 1)
             r == calculate_next_review(s.next_interval, s.ease_factor, h[j].grade,
                                        s.repetitions, s.stage)
         IN [next_interval |-> r.next_interval, ease_factor |-> r.ease_factor,
             repetitions |-> r.repetitions, stage |-> r.stage]

\* update j of the history moved the item from learning to review
GraduatedAt(h, j) ==
    /\ j \in 1..Len(h)
    /\ StateAfter(h, j - 1).stage = "learning"
    /\ StateAfter(h, j).stage = "review"

\* the latest update of the record is the m-th review since the item
\* graduated, and every review since then was a pass with grade 3 or 4
PostGraduation(progress, m) ==
    LET h == progress.review_history
        n == Len(h)
    IN /\ m >= 1
       /\ n > m
       /\ GraduatedAt(h, n - m)
       /\ \A j \in (n - m + 1)..n : h[j].grade \in {3, 4}

\* C9 (as claimed): for an item driven from initialize_item through
\* update_progress, the first pass with grade 3 or 4 in stage review after
\* graduating from learning sets the interval to 1 day, the second sets it to
\* 6 days, and later ones set it to ceil(previous interval x ease factor).
C9_PostGraduationIntervals ==
    \A k \in 1..Len(user_progress) :
        LET p == user_progress[k]
            h == p.review_history
        IN /\ PostGraduation(p, 1) => p.interval = 1 * DAY
           /\ PostGraduation(p, 2) => p.interval = 6 * DAY
           /\ \A m \in 3..Len(h) :
                  PostGraduation(p, m) =>
                      p.interval = DAY * CeilDiv(h[Len(h)].previous_interval
                                                     * StateAfter(h, Len(h) - 1).ease_factor,
                                                 DAY * 100)

\* the step is an update_progress call on the k-th record
Updated(k) ==
    /\ k \in 1..Len(user_progress)
    /\ k \in 1..Len(user_progress')
    /\ user_progress'[k].total_reviews = user_progress[k].total_reviews + 1

\* the grade of the latest update of a record
LastGrade(progress) == progress.review_history[Len(progress.review_history)].grade

\* C11: a record fresh from initialize_item (stage new) updated with grade 4
\* is in stage learning; updating it next with grade 2 leaves the stage at
\* learning, sets repetitions to 0 and makes the ease factor strictly
\* smaller than it was after the first update.
C11_PassThenFail ==
    [][\A k \in 1..1 :
          Updated(k) =>
             LET before == user_progress[k]
                 after == user_progress'[k]
             IN /\ (before.total_reviews = 0 /\ before.stage = "new"
                       /\ LastGrade(after) = 4)
                      => after.stage = "learning"
                /\ (before.total_reviews = 1 /\ LastGrade(before) = 4
                       /\ LastGrade(after) = 2)
                      => /\ before.stage = "learning"
                         /\ after.stage = "learning"
                         /\ after.repetitions = 0
                         /\ after.ease_factor < before.ease_factor]_vars

\* the record after the two updates, grade 4 and then grade 2
C11_Witness ==
    /\ Len(user_progress) = 1
    /\ user_progress[1].total_reviews = 2
    /\ user_progress[1].review_history[1].grade = 4
    /\ user_progress[1].review_history[2].grade = 2
    /\ user_progress[1].stage = "learning"
    /\ user_progress[1].ease_factor < ease_factor_default

\* C16: calculate_next_review and update_progress reject a grade outside
\* 0..5 with InvalidInput, and the record passed to update_progress is left
\* unchanged: no update with such a grade is ever recorded.
C16_InvalidGradeRejected ==
    [][\A k \in 1..Len(user_progress) :
          Updated(k) => LastGrade(user_progress'[k]) \in Grades]_vars

\* C25 (as claimed): on a failing grade the new interval is the first
\* learning step (1 minute) when the item was in stage new, and 1 day only
\* when the item was already past learning (stage review or mastered); the
\* ease factor becomes max(ease factor - 0.2, 1.3).
C25_FailingInterval ==
    [][\A k \in 1..Len(user_progress) :
          (Updated(k) /\ LastGrade(user_progress'[k]) < 3) =>
             LET before == user_progress[k]
                 after == user_progress'[k]
             IN /\ before.stage = "new" => after.interval = learning_steps[1]
                /\ before.stage \in {"review", "mastered"} => after.interval = 1 * DAY
                /\ after.interval = 1 * DAY => before.stage \in {"review", "mastered"}
                /\ after.ease_factor
                      = Max(before.ease_factor - 20, ease_factor_min)]_vars

\* the place of an interval among the learning steps, 0 when it is none
StepUsed(interval) ==
    IF \E i \in 1..Len(learning_steps) : learning_steps[i] = interval
    THEN CHOOSE i \in 1..Len(learning_steps) : learning_steps[i] = interval
    ELSE 0

\* C26 (as claimed): on a passing grade in stage learning, repetitions
\* increases by one; if it then equals or exceeds the number of learning
\* steps (2) the item moves to review with interval 1 day, otherwise it
\* stays in learning and its interval is the learning step after the one it
\* last used; the ease factor is unchanged.
C26_LearningPass ==
    [][\A k \in 1..Len(user_progress) :
          (/\ Updated(k)
           /\ user_progress[k].stage = "learning"
           /\ LastGrade(user_progress'[k]) >= 3) =>
             LET before == user_progress[k]
                 after == user_progress'[k]
             IN /\ after.repetitions = before.repetitions + 1
                /\ after.ease_factor = before.ease_factor
                /\ IF after.repetitions >= Len(learning_steps)
                   THEN /\ after.stage = "review"
                        /\ after.interval = 1 * DAY
                   ELSE /\ after.stage = "learning"
                        /\ StepUsed(before.interval) \in 1..(Len(learning_steps) - 1)
                              => after.interval
                                   = learning_steps[StepUsed(before.interval) + 1]]_vars

\* C28: after any number of update_progress calls on a record, its review
\* history has at most 20 entries and they are the most recent reviews in
\* the order they were made; total_reviews counts every update and
\* correct_reviews counts those with grade >= 3, so correct_reviews <=
\* total_reviews.
C28_HistoryOfLastTwenty ==
    [][\A k \in 1..Len(user_progress) :
          Updated(k) =>
             LET before == user_progress[k]
                 after == user_progress'[k]
                 n == Len(after.review_history)
                 entry == after.review_history[n]
                 kept == IF Len(before.review_history) < 20
                         THEN before.review_history
                         ELSE Tail(before.review_history)
             IN /\ n = (IF after.total_reviews < 20 THEN after.total_reviews ELSE 20)
                /\ SubSeq(after.review_history, 1, n - 1) = kept
                /\ entry.previous_interval = before.interval
                /\ entry.new_interval = after.interval
                /\ after.total_reviews = before.total_reviews + 1
                /\ after.correct_reviews
                      = before.correct_reviews + (IF entry.grade >= 3 THEN 1 ELSE 0)
                /\ after.correct_reviews <= after.total_reviews]_vars

\* a record reviewed 22 times, the last three times with grades 5, 0 and 4:
\* the history has 20 entries, and the first reviews are no longer in it
C28_Witness ==
    /\ Len(user_progress) = 1
    /\ user_progress[1].total_reviews = 22
    /\ LET h == user_progress[1].review_history
       IN /\ Len(h) = 20
          /\ h[18].grade = 5 /\ h[19].grade = 0 /\ h[20].grade = 4
          /\ h[1].previous_interval # 1 * DAY

\* new < learning < review < mastered
StageRank(stage) ==
    CASE stage = "new" -> 0
      [] stage = "learning" -> 1
      [] stage = "review" -> 2
      [] stage = "mastered" -> 3

\* C17: over any sequence of update_progress calls on a record, a passing
\* grade (>= 3) never moves the stage backward in the order new < learning
\* < review < mastered; the stage moves backward only on a failing grade,
\* and then to learning with repetitions = 0.
C17_StageForwardOnPass ==
    [][\A k \in 1..1 :
          Updated(k) =>
             LET before == user_progress[k]
                 after == user_progress'[k]
             IN /\ LastGrade(after) >= 3
                      => StageRank(after.stage) >= StageRank(before.stage)
                /\ StageRank(after.stage) < StageRank(before.stage)
                      => /\ LastGrade(after) < 3
                         /\ after.stage = "learning"
                         /\ after.repetitions = 0]_vars

\* a mastered item that has just passed another review with the lowest
\* passing grade and is still mastered
C17_Witness ==
    /\ Len(user_progress) = 1
    /\ LET h == user_progress[1].review_history
       IN /\ Len(h) >= 2
          /\ StateAfter(h, Len(h) - 1).stage = "mastered"
          /\ h[Len(h)].grade = 3
          /\ user_progress[1].stage = "mastered"

\* the item ids that get_due_items returns for the map, asked now with the
\* default arguments
DueNow == LET result == get_due_items(user_progress, None, {})
          IN {result[i].item_id : i \in 1..Len(result)}

\* C30: after every update_progress call, for every prior state reachable
\* from initialize_item and every grade 0..5, the record's interval is
\* strictly positive and its next review time is strictly later than the
\* time of the update, so an item just reviewed is not returned by
\* get_due_items at that same instant.
C30_NotDueRightAfterReview ==
    \A k \in 1..Len(user_progress) :
        LET progress == user_progress[k]
        IN progress.total_reviews >= 1 =>
             /\ progress.interval > 0
             /\ progress.next_review_date > progress.last_review_date
             /\ progress.next_review_date
                   = progress.last_review_date + progress.interval
             /\ now = progress.last_review_date => progress.item_id \notin DueNow

\* an item that has just failed its first review has the shortest interval,
\* one minute, and is not due; it was due before the review
C30_Witness ==
    /\ Len(user_progress) = 1
    /\ user_progress[1].total_reviews = 1
    /\ user_progress[1].interval = 1
    /\ user_progress[1].last_review_date = now
    /\ user_progress[1].created_date = now
    /\ DueNow = {}

---------------------------------------------------------------------------
(* Claims about get_due_items, checked under SpecDue *)

\* the record of an item in a progress map
RecordOf(progress_map, item_id) ==
    progress_map[CHOOSE k \in 1..Len(progress_map) :
                     progress_map[k].item_id = item_id]

\* the place of an item in a progress map
PlaceOf(progress_map, item_id) ==
    CHOOSE k \in 1..Len(progress_map) : progress_map[k].item_id = item_id

\* C5 (as claimed): for every progress map and every non-negative integer
\* max_items, 0 included, get_due_items returns at most max_items entries.
C5_AtMostMaxItems ==
    (due.called /\ due.max_items # None)
        => Len(due.result) <= due.max_items

\* C6: every entry get_due_items returns comes from a record whose next
\* review time is not later than the time of the call, its priority is
\* max(0, whole days overdue + (3.0 - ease factor)), and the entries are in
\* order of non-increasing priority.
C6_DueAndOrdered ==
    due.called =>
        /\ \A i \in 1..Len(due.result) :
              /\ due.result[i].item_id \in ItemIds(due.given)
              /\ LET p == RecordOf(due.given, due.result[i].item_id)
                     whole_days == (due.at - p.next_review_date) \div 1440
                     urgency == whole_days * 100 + (300 - p.ease_factor)
                 IN /\ p.next_review_date <= due.at
                    /\ due.result[i].priority = (IF urgency > 0 THEN urgency ELSE 0)
        /\ \A i \in 1..(Len(due.result) - 1) :
              due.result[i].priority >= due.result[i + 1].priority

\* two records come back in the opposite order of the map's, the first a
\* whole day overdue and of strictly higher priority than the second
C6_Witness ==
    /\ due.called
    /\ Len(due.result) = 2
    /\ due.result[1].priority > due.result[2].priority
    /\ due.result[1].days_overdue = 1
    /\ PlaceOf(due.given, due.result[1].item_id)
           > PlaceOf(due.given, due.result[2].item_id)

\* between the times t1 <= t2 no record the filter admits passes its next
\* review time, and no due record's count of whole days overdue changes
SameDueness(progress_map, item_types, t1, t2) ==
    \A k \in 1..Len(progress_map) :
        LET p == progress_map[k]
        IN (item_types = {} \/ p.type \in item_types) =>
              /\ (p.next_review_date <= t1) <=> (p.next_review_date <= t2)
              /\ p.next_review_date <= t1 =>
                     (t1 - p.next_review_date) \div 1440
                         = (t2 - p.next_review_date) \div 1440

\* C7 (as claimed): two get_due_items calls on the same progress map with
\* the same arguments and no update between them return the same items in
\* the same order, and the call leaves every progress record unchanged.
C7_SameOutputTwice ==
    /\ due.called => user_progress = due.given
    /\ due.repeat => due.result = due.prev_result

\* C7 (amended): the two calls return the same items in the same order
\* provided that between them no record passes its next review time and no
\* due record's count of whole days overdue changes, as when both calls read
\* the same current time; the call leaves every progress record unchanged.
C7_SameOutputWhileDuenessSame ==
    /\ due.called => user_progress = due.given
    /\ (due.repeat /\ SameDueness(due.given, due.item_types, due.prev_at, due.at))
           => due.result = due.prev_result

\* a second call a minute after the first returns the same two records
C7_Witness ==
    /\ due.repeat
    /\ due.prev_at < due.at
    /\ SameDueness(due.given, due.item_types, due.prev_at, due.at)
    /\ Len(due.result) = 2
    /\ due.result = due.prev_result
    /\ \E k \in 1..Len(due.given) : due.given[k].total_reviews > 0

---------------------------------------------------------------------------
(* Claims about the quiz manager, checked under SpecQuiz *)

\* the session of the active set with the given id
SessionWithId(sessions, session_id) ==
    sessions[CHOOSE k \in 1..Len(sessions) : sessions[k].session_id = session_id]

\* the call was a submit_answer that was accepted
AnswerAccepted(r) == r.op = "submit_answer" /\ "error" \notin DOMAIN r.result

\* the latest call was the submit_answer that completed a quiz
QuizJustCompleted ==
    /\ response.op = "submit_answer"
    /\ "quiz_completed" \in DOMAIN response.result

\* every recorded answer of the session is the correct option
AllCorrect(session) ==
    \A i \in 1..Len(session.questions) :
        session.user_answers[i] = session.questions[i].correct_answer

\* C3 (as claimed): create_weekly_quiz for a user who still has an
\* uncompleted session in the active set fails with DuplicateActiveSession
\* and registers no second session; so of two sessions of one user in the
\* active set, the earlier was completed before the later was created.
C3_NoSecondSessionWhileUncompleted ==
    \A i, j \in 1..Len(active_sessions) :
        (i < j /\ active_sessions[i].user_id = active_sessions[j].user_id)
            => /\ active_sessions[i].end_time # None
               /\ active_sessions[i].end_time <= active_sessions[j].start_time

\* C10: for every session with N >= 1 questions, the correct option
\* submitted for each of the N questions in turn gives a final result with
\* correct_answers = N, score_percentage = 100 and no weak area.
C10_AllCorrectResult ==
    QuizJustCompleted =>
        LET session == SessionWithId(active_sessions, response.session_id)
            final_result == response.result.final_result
        IN AllCorrect(session) =>
              /\ Len(session.questions) >= 1
              /\ final_result.correct_answers = Len(session.questions)
              /\ final_result.score_percentage.num
                     = 100 * final_result.score_percentage.den
              /\ final_result.weak_areas = <<>>

\* a quiz of two questions of different categories, both answered with the
\* correct option
C10_Witness ==
    /\ QuizJustCompleted
    /\ LET session == SessionWithId(active_sessions, response.session_id)
       IN /\ Len(session.questions) = 2
          /\ session.questions[1].category # session.questions[2].category
          /\ AllCorrect(session)
          /\ response.result.final_result.correct_answers = 2

\* the session has no question left to answer
AllAnswered(session) == session.current_question >= Len(session.questions)

\* C12: submit_answer returns the session-not-found error for an id that is
\* not in the active set and the already-completed error for a session whose
\* questions are all answered; both leave every session's score, index,
\* answers and times, and the active set, unchanged.
C12_ErrorsChangeNothing ==
    [][response'.op = "submit_answer" =>
          LET session_id == response'.session_id
          IN /\ session_id \notin SessionIds(active_sessions)
                   => /\ response'.result = [error |-> "Session not found"]
                      /\ active_sessions' = active_sessions
             /\ (/\ session_id \in SessionIds(active_sessions)
                 /\ AllAnswered(SessionWithId(active_sessions, session_id)))
                   => /\ response'.result = [error |-> "Quiz already completed"]
                      /\ active_sessions' = active_sessions
             /\ "error" \in DOMAIN response'.result
                   => active_sessions' = active_sessions]_vars

\* an answer was refused for a session with two questions, both answered,
\* which is still as the last accepted answer left it
C12_Witness ==
    /\ response.op = "submit_answer"
    /\ response.result = [error |-> "Quiz already completed"]
    /\ LET session == SessionWithId(active_sessions, response.session_id)
       IN /\ Len(session.questions) = 2
          /\ session.current_question = 2
          /\ Len(session.time_per_question) = 2
          /\ session.end_time # None

\* C14: on quiz completion (the scheduler is attached) update_progress is
\* called exactly once for each question of the session, with grade 5 if the
\* user's answer equals the correct answer and grade 2 otherwise; no
\* update_progress call is made before the last answer, and none is made
\* again by a later submit_answer on the completed session.
C14_OneUpdatePerQuestionOnCompletion ==
    /\ response.op = "create_weekly_quiz" => sr_updates = <<>>
    /\ response.op = "submit_answer" =>
          IF "quiz_completed" \in DOMAIN response.result
          THEN LET session == SessionWithId(active_sessions, response.session_id)
               IN /\ Len(sr_updates) = Len(session.questions)
                  /\ \A i \in 1..Len(session.questions) :
                        /\ sr_updates[i].item_id = session.questions[i].id
                        /\ sr_updates[i].grade =
                              IF session.user_answers[i]
                                    = session.questions[i].correct_answer
                              THEN 5 ELSE 2
          ELSE sr_updates = <<>>

\* a quiz of two questions was just completed with one right and one wrong
\* answer, and the scheduler got grade 5 for the one and 2 for the other
C14_Witness ==
    /\ QuizJustCompleted
    /\ Len(sr_updates) = 2
    /\ {sr_updates[1].grade, sr_updates[2].grade} = {2, 5}

\* the user of the session completed, in another session, a quiz that had
\* the question too
SeenBefore(session, question) ==
    \E k \in 1..Len(active_sessions) :
        /\ active_sessions[k].session_id # session.session_id
        /\ active_sessions[k].user_id = session.user_id
        /\ active_sessions[k].end_time # None
        /\ \E i \in 1..Len(active_sessions[k].questions) :
              active_sessions[k].questions[i].id = question.id

\* C15 (as claimed): a question's record is created only at the user's first
\* exposure; when the same question appears in two completed quizzes of one
\* user, the second completion updates the record left by the first, so the
\* record then has total_reviews = 2.
C15_SecondQuizUpdatesSameRecord ==
    QuizJustCompleted =>
        LET session == SessionWithId(active_sessions, response.session_id)
        IN \A i \in 1..Len(session.questions) :
              SeenBefore(session, session.questions[i])
                  => sr_updates[i].progress.total_reviews = 2

\* C18 (as claimed): a quiz creation that would select no question (count
\* 0, or no candidate left after the backfill) fails with
\* InsufficientQuestions and registers nothing, so every session in the
\* active set has at least one question.
C18_NoSessionWithoutQuestions ==
    \A k \in 1..Len(active_sessions) : Len(active_sessions[k].questions) >= 1

\* the questions of the bank that match a session's category (any category
\* for mixed) and its exact difficulty
MatchingInBank(session) ==
    {question_bank[i] : i \in
        {i \in 1..Len(question_bank) :
            /\ session.category = "mixed"
                  \/ question_bank[i].category = session.category
            /\ question_bank[i].difficulty = session.difficulty}}

\* C20: when the bank holds at least questionCount questions matching the
\* requested category (any category for MIXED) and the exact requested
\* difficulty, the created session has exactly questionCount questions,
\* pairwise distinct, each matching the category and the difficulty.
C20_EnoughMatchingQuestions ==
    (/\ response.op = "create_weekly_quiz"
     /\ Cardinality(MatchingInBank(response.session)) >= response.question_count)
        => LET questions == response.session.questions
           IN /\ Len(questions) = response.question_count
              /\ \A i, j \in 1..Len(questions) :
                    i # j => questions[i].id # questions[j].id
              /\ \A i \in 1..Len(questions) :
                    questions[i] \in MatchingInBank(response.session)
              /\ SessionWithId(active_sessions, response.session.session_id)
                    = response.session

\* a session of two questions was just created from the four medium
\* questions of the bank
C20_Witness ==
    /\ response.op = "create_weekly_quiz"
    /\ response.question_count = 2
    /\ Cardinality(MatchingInBank(response.session)) = 4
    /\ Len(response.session.questions) = 2

\* C23: a session with N >= 1 questions is completed by exactly N accepted
\* submit_answer calls: the response carries the completion flag and the
\* final result on the N-th accepted call and on no earlier one, end_time is
\* set exactly then, and afterwards the session's index, score and answers
\* never change.
C23_CompletedByNthAnswer ==
    [][\A n \in 1..Len(active_sessions) :
          LET before == active_sessions[n]
              session_id == before.session_id
              N == Len(before.questions)
          IN (N >= 1 /\ session_id \in SessionIds(active_sessions')) =>
               LET after == SessionWithId(active_sessions', session_id)
                   accepted == /\ AnswerAccepted(response')
                               /\ response'.session_id = session_id
               IN /\ accepted =>
                       /\ before.end_time = None
                       /\ after.current_question = before.current_question + 1
                       /\ response'.result.questions_completed
                             = after.current_question
                       /\ ("quiz_completed" \in DOMAIN response'.result)
                             <=> after.current_question = N
                       /\ ("final_result" \in DOMAIN response'.result)
                             <=> after.current_question = N
                       /\ (after.end_time # None) <=> after.current_question = N
                  /\ ~accepted => after = before
                  /\ before.end_time # None =>
                       /\ before.current_question = N
                       /\ after = before]_vars

\* the second answer to a session of two questions was just accepted, with
\* the completion flag, and the session has its end_time
C23_Witness ==
    /\ AnswerAccepted(response)
    /\ "quiz_completed" \in DOMAIN response.result
    /\ response.result.questions_completed = 2
    /\ LET session == SessionWithId(active_sessions, response.session_id)
       IN /\ Len(session.questions) = 2
          /\ session.end_time # None

\* C29 (as claimed): in every reachable state of a session with N
\* questions, 0 <= score <= current question index <= N, the number of
\* recorded per-question times equals the index, the answers at positions
\* below the index are set and those at or above it are unset, score equals
\* the number of recorded answers equal to their question's correct option,
\* and end_time is set exactly when index = N.
C29_SessionInvariant ==
    \A n \in 1..Len(active_sessions) :
        LET session == active_sessions[n]
            N == Len(session.questions)
            index == session.current_question
        IN /\ 0 <= session.score
           /\ session.score <= index
           /\ index <= N
           /\ Len(session.time_per_question) = index
           /\ Len(session.user_answers) = N
           /\ \A i \in 1..N : (i <= index) <=> (session.user_answers[i] # None)
           /\ session.score
                 = Cardinality({i \in 1..index :
                      session.user_answers[i] = session.questions[i].correct_answer})
           /\ (session.end_time # None) <=> (index = N)

---------------------------------------------------------------------------
(* Claims about the selection of questions, checked under SpecSelect *)

\* C21 (as claimed): when fewer than questionCount questions match the
\* requested category and difficulty, every matching question is in the
\* created session and only the shortfall is filled with other questions of
\* the bank, none of them repeated.
C21_MatchingQuestionsAllSelected ==
    (/\ response.op = "create_weekly_quiz"
     /\ Cardinality(MatchingInBank(response.session)) < response.question_count)
        => LET questions == response.session.questions
           IN /\ \A q \in MatchingInBank(response.session) : InList(q, questions)
              /\ Len(questions) = Min(response.question_count, Len(question_bank))
              /\ \A i, j \in 1..Len(questions) :
                    i # j => questions[i].id # questions[j].id

---------------------------------------------------------------------------
(* Claims about the recorded times, checked under SpecTime *)

\* C22: the elapsed time recorded by the k-th accepted submit_answer of a
\* session equals the time between the (k-1)-th submission (the session
\* start for k = 1) and the k-th, so after k answers the recorded times sum
\* to the time from the session start to the k-th submission.  Times are
\* in seconds, the clock in minutes.
C22_ElapsedSincePreviousAnswer ==
    [][(AnswerAccepted(response') /\ response' # response) =>
          LET before == SessionWithId(active_sessions, response'.session_id)
              after == SessionWithId(active_sessions', response'.session_id)
              k == after.current_question
              previous == IF k = 1 THEN before.start_time ELSE response.at
          IN /\ k > 1 => /\ AnswerAccepted(response)
                         /\ response.session_id = response'.session_id
             /\ Len(after.time_per_question) = k
             /\ after.time_per_question[k] = (response'.at - previous) * 60
             /\ Sum(after.time_per_question)
                   = (response'.at - after.start_time) * 60]_vars

\* a session started at 0 got its first answer a minute later and its
\* second at the end of the day
C22_Witness ==
    /\ AnswerAccepted(response)
    /\ response.at = DAY
    /\ LET session == SessionWithId(active_sessions, response.session_id)
       IN /\ session.start_time = 0
          /\ session.time_per_question = <<60, (DAY - 1) * 60>>

---------------------------------------------------------------------------
(* Claims about the result of a quiz, checked under SpecResult *)

\* the numbers of the session's questions of a category: those answered
\* with the correct option, and all
CorrectIn(session, cat) ==
    Cardinality({i \in 1..Len(session.questions) :
                    /\ session.questions[i].category = cat
                    /\ session.user_answers[i] = session.questions[i].correct_answer})

TotalIn(session, cat) ==
    Cardinality({i \in 1..Len(session.questions) :
                    session.questions[i].category = cat})

\* C24: in a final result, a category of the session's questions is listed
\* in weak_areas exactly when its correct/total ratio is below 60%, in
\* strong_areas exactly when it is at least 80%, and in neither list
\* otherwise; no category is in both lists.
C24_WeakAndStrongAreas ==
    QuizJustCompleted =>
        LET session == SessionWithId(active_sessions, response.session_id)
            result == response.result.final_result
            Listed(areas, cat) == \E i \in 1..Len(areas) : areas[i] = title(cat)
        IN \A cat \in Categories :
              IF TotalIn(session, cat) = 0
              THEN /\ ~Listed(result.weak_areas, cat)
                   /\ ~Listed(result.strong_areas, cat)
              ELSE /\ Listed(result.weak_areas, cat)
                        <=> CorrectIn(session, cat) * 100 < 60 * TotalIn(session, cat)
                   /\ Listed(result.strong_areas, cat)
                        <=> CorrectIn(session, cat) * 100 >= 80 * TotalIn(session, cat)
                   /\ ~(Listed(result.weak_areas, cat)
                          /\ Listed(result.strong_areas, cat))

\* a quiz of three questions of one category was completed with two right
\* answers: the category is in neither list
C24_Witness ==
    /\ QuizJustCompleted
    /\ LET session == SessionWithId(active_sessions, response.session_id)
           result == response.result.final_result
       IN /\ TotalIn(session, "quantitative_aptitude") = 3
          /\ CorrectIn(session, "quantitative_aptitude") = 2
          /\ result.weak_areas = <<>>
          /\ result.strong_areas = <<>>

---------------------------------------------------------------------------
(* Claims about the bot's handlers, checked under SpecBot *)

\* C4: under any interleaving of the handlers quiz_command and
\* handle_quiz_answer for any set of users, active_sessions never holds
\* more than one session with the same user_id.
C4_OneSessionPerUser ==
    \A i, j \in 1..Len(active_sessions) :
        i # j => active_sessions[i].user_id # active_sessions[j].user_id

\* both users have a session, one of them completed and left in the active
\* set, and the /quiz of a user who has one is answered with its question
C4_Witness ==
    /\ Len(active_sessions) = 2
    /\ \E k \in 1..2 : active_sessions[k].end_time # None
    /\ \E i \in 1..Len(tasks) :
          /\ tasks[i].handler = "quiz_command"
          /\ tasks[i].pc = "resend_question"

\* C13 (as claimed): whenever the last question of a session has been
\* answered the session is removed from the active set, also when sending
\* the feedback or the result raises; so once the handler has ended no
\* completed session is left for the user's next quiz request to find.
C13_CompletedSessionRemoved ==
    tasks = <<>> =>
        \A k \in 1..Len(active_sessions) : active_sessions[k].end_time = None

\* the recorded answers of a session are those at the places up to its index
RecordedUpToIndex(session) ==
    /\ Len(session.time_per_question) = session.current_question
    /\ \A i \in 1..Len(session.questions) :
          (session.user_answers[i] # None) <=> (i <= session.current_question)

\* C19: for a single session the answers submitted by the handlers are
\* processed one at a time: no two submissions are recorded against the same
\* question index, and every accepted submission advances the index by
\* exactly one.
C19_OneAnswerPerIndex ==
    [][\A k \in 1..Len(active_sessions) :
          LET before == active_sessions[k]
              session_id == before.session_id
          IN session_id \in SessionIds(active_sessions') =>
               LET after == SessionWithId(active_sessions', session_id)
                   accepted == /\ response'.op = "submit_answer"
                               /\ response'.session_id = session_id
                               /\ "error" \notin DOMAIN response'.result
               IN /\ RecordedUpToIndex(after)
                  /\ IF accepted
                     THEN /\ after.current_question = before.current_question + 1
                          /\ after.user_answers[after.current_question]
                                = response'.answer
                          /\ \A i \in 1..before.current_question :
                                /\ after.user_answers[i] = before.user_answers[i]
                                /\ after.time_per_question[i]
                                      = before.time_per_question[i]
                     ELSE after = before]_vars

\* the second answer of a session was just accepted: both places hold an
\* answer and the index is 2
C19_Witness ==
    /\ response.op = "submit_answer"
    /\ "error" \notin DOMAIN response.result
    /\ LET session == SessionWithId(active_sessions, response.session_id)
       IN /\ session.current_question = 2
          /\ session.user_answers[1] # None
          /\ session.user_answers[2] = response.answer
          /\ Len(session.time_per_question) = 2

===========================================================================
